---- MODULE Spec2Model ----
(***************************************************************************)
(* A model of the conversation orchestration code of gemini-cli (DeepSeek  *)
(* fork):                                                                  *)
(*   - the auth flow controller   packages/cli/src/ui/hooks/useAuthCommand *)
(*   - the conversation sessions  packages/core/src/core/chat.ts (Chat)    *)
(*                                and deepseek.ts (DeepSeekChat)           *)
(*   - the provider adapter       contentGenerator.ts (LLMProviderAdapter) *)
(*                                and deepseek.ts (DeepSeekClient)         *)
(* Each component has its own next-state relation and specification; the   *)
(* variables of the other components keep their initial values.            *)
(***************************************************************************)
EXTENDS Bags, FiniteSets, Integers, Sequences, TLC

VARIABLES
    \* ---- auth flow controller (useAuthCommand.ts) ----
    isAuthDialogOpen,        \* useState, line 28
    isAuthenticating,        \* useState, line 36
    isUserInitiatedAuthRef,  \* useRef, line 37
    hasAutoAuthFailedRef,    \* useRef, line 38
    selectedAuthType,        \* settings.merged.selectedAuthType
    authError,               \* what setAuthError was last called with
    effectDue,               \* the useEffect of line 40 is scheduled to run
    authFlows,               \* bag of suspended async calls (authFlow / handleAuthSelect)
    lastAuthEvent,           \* the handler step that ran last
    autoAuthSucceeded,       \* an automatic attempt succeeded since the last selection
    \* ---- process environment ----
    envDeepSeekKey,          \* process.env.DEEPSEEK_API_KEY
    \* ---- conversation sessions (chat.ts: Chat, DeepSeekChat) ----
    dsHistory,               \* DeepSeekChat.history, line 71
    dsSystemPrompt,          \* DeepSeekChat.systemPrompt, line 72
    dsPending,               \* bag of sendMessageStream calls awaiting axios.post
    dsLast,                  \* the sendMessageStream call that settled last
    dsView,                  \* the array a caller got from DeepSeekChat.getHistory
    lastSessEvent,           \* the DeepSeekChat step that ran last
    chatHistory,             \* Chat.history, line 14
    chatLast,                \* the Chat.sendMessageStream call that ran last
    chatView,                \* the array a caller got from Chat.getHistory
    lastChatEvent,           \* the Chat step that ran last
    \* ---- provider adapter (contentGenerator.ts, deepseek.ts) ----
    cfgProviders,            \* config.getProviders()
    adReq,                   \* the GenerateContentParameters of the calls
    adBackend,               \* what the backend answers to them
    adResults,               \* what each request path settled with
    \* ---- DeepSeekClient as owner of the session (deepseek.ts) ----
    clientChat,              \* DeepSeekClient.chat is defined, line 194
    promptSet,               \* the system prompt most recently given to the chat
    \* ---- content generator facade (contentGenerator.ts) ----
    cgProvider,              \* config.getProvider()
    cgResult,                \* what createContentGenerator last settled with
    cgConstructed,           \* the objects constructed so far, in order
    cgLast,                  \* what countTokens / embedContent last settled with
    lastFacadeEvent          \* the facade step that ran last

authVars == <<isAuthDialogOpen, isAuthenticating, isUserInitiatedAuthRef,
              hasAutoAuthFailedRef, selectedAuthType, authError, effectDue,
              authFlows, lastAuthEvent, autoAuthSucceeded>>

envVars == <<envDeepSeekKey>>

sessVars == <<dsHistory, dsSystemPrompt, dsPending, dsLast, dsView,
              lastSessEvent>>

chatVars == <<chatHistory, chatLast, chatView, lastChatEvent>>

adapterVars == <<cfgProviders, adReq, adBackend, adResults>>

clientVars == <<clientChat, promptSet>>

facadeVars == <<cgProvider, cgResult, cgConstructed, cgLast, lastFacadeEvent>>

vars == <<authVars, envVars, sessVars, chatVars, adapterVars, clientVars,
          facadeVars>>

\* What the steps of one component leave alone: the other components.
notAuth == <<envVars, sessVars, chatVars, adapterVars, clientVars, facadeVars>>
notSess == <<authVars, envVars, chatVars, adapterVars, facadeVars>>
notChat == <<authVars, envVars, sessVars, adapterVars, clientVars, facadeVars>>
notAdapter == <<authVars, envVars, sessVars, chatVars, clientVars, facadeVars>>
notFacade == <<authVars, envVars, sessVars, chatVars, adapterVars, clientVars>>

(***************************************************************************)
(*                        AUTH FLOW CONTROLLER                             *)
(***************************************************************************)

\* Bound: how many async calls (automatic flows and handleAuthSelect calls)
\* may be suspended at the same time.
MaxAuthFlows == 2

\* AuthType values a user can select (two of the enum's four).
AuthMethods == {"oauth-personal", "api-key"}

\* settings.merged.selectedAuthType === undefined
NoMethod == "undefined"

\* setAuthError(null)
NoError == "null"

\* setAuthError(`Failed to login. Message: ${getErrorMessage(e)}`)
LoginFailed == "Failed to login. Message: <e>"

\* A suspended async call: kind "auto" is the effect's authFlow, kind "user" a
\* handleAuthSelect(method) call; pc is the await it is suspended at.
AuthFlow(kind, pc, method) == [kind |-> kind, pc |-> pc, method |-> method]

AuthFlowsAt(kind, pc) ==
    {f \in BagToSet(authFlows) : f.kind = kind /\ f.pc = pc}

\* Number of pending config.refreshAuth calls.
PendingRefreshAuth ==
    LET at == {f \in BagToSet(authFlows) : f.pc = "refreshAuth"}
        RECURSIVE Sum(_)
        Sum(S) == IF S = {} THEN 0
                  ELSE LET f == CHOOSE x \in S : TRUE
                       IN  CopiesIn(f, authFlows) + Sum(S \ {f})
    IN  Sum(at)

PendingAutoRefreshAuth ==
    LET at == AuthFlowsAt("auto", "refreshAuth")
        RECURSIVE Sum(_)
        Sum(S) == IF S = {} THEN 0
                  ELSE LET f == CHOOSE x \in S : TRUE
                       IN  CopiesIn(f, authFlows) + Sum(S \ {f})
    IN  Sum(at)

\* setIsAuthDialogOpen(v): isAuthDialogOpen is a dependency of the effect, so
\* a changed value schedules the effect.
SetIsAuthDialogOpen(v) ==
    /\ isAuthDialogOpen' = v
    /\ effectDue' = (effectDue \/ isAuthDialogOpen # v)

\* The guard of line 45 without its last disjunct: the retry guard is dropped.
AutoAuthBlockedNoRetryGuard ==
    \/ isAuthDialogOpen
    \/ selectedAuthType = NoMethod
    \/ isAuthenticating
    \/ isUserInitiatedAuthRef

\* The effect's guard (line 45): TRUE when authFlow returns without an attempt.
AutoAuthBlocked ==
    \/ isAuthDialogOpen
    \/ selectedAuthType = NoMethod
    \/ isAuthenticating
    \/ isUserInitiatedAuthRef
    \/ hasAutoAuthFailedRef

\* The initial state with the dialog open whatever the settings hold.
AuthInitDialogOpen ==
    /\ selectedAuthType \in AuthMethods \cup {NoMethod}
    /\ isAuthDialogOpen = TRUE
    /\ isAuthenticating = FALSE
    /\ isUserInitiatedAuthRef = FALSE
    /\ hasAutoAuthFailedRef = FALSE
    /\ authError = NoError
    /\ effectDue = TRUE
    /\ authFlows = EmptyBag
    /\ lastAuthEvent = "mount"
    /\ autoAuthSucceeded = FALSE

AuthInit ==
    /\ selectedAuthType \in AuthMethods \cup {NoMethod}
    /\ isAuthDialogOpen = (selectedAuthType = NoMethod)
    /\ isAuthenticating = FALSE
    /\ isUserInitiatedAuthRef = FALSE
    /\ hasAutoAuthFailedRef = FALSE
    /\ authError = NoError
    /\ effectDue = TRUE
    /\ authFlows = EmptyBag
    /\ lastAuthEvent = "mount"
    /\ autoAuthSucceeded = FALSE

\* useEffect body, lines 40-66, up to the await of performAuthFlow.
EffectRun ==
    /\ effectDue
    /\ effectDue' = FALSE
    /\ IF AutoAuthBlocked
       THEN /\ lastAuthEvent' = "effectSkip"
            /\ UNCHANGED <<isAuthenticating, authFlows>>
       ELSE /\ BagCardinality(authFlows) < MaxAuthFlows
            /\ isAuthenticating' = TRUE
            /\ authFlows' = authFlows (+)
                   SetToBag({AuthFlow("auto", "refreshAuth", selectedAuthType)})
            /\ lastAuthEvent' = "autoStart"
    /\ UNCHANGED <<isAuthDialogOpen, isUserInitiatedAuthRef,
                   hasAutoAuthFailedRef, selectedAuthType, authError>>
    /\ UNCHANGED notAuth
    /\ UNCHANGED autoAuthSucceeded

\* A dependency of the effect other than isAuthDialogOpen (settings, config,
\* setAuthError, onAuthComplete) is a new object on a re-render.
DepsChange ==
    /\ ~effectDue
    /\ effectDue' = TRUE
    /\ lastAuthEvent' = "depsChange"
    /\ UNCHANGED notAuth
    /\ UNCHANGED autoAuthSucceeded
    /\ UNCHANGED <<isAuthDialogOpen, isAuthenticating, isUserInitiatedAuthRef,
                   hasAutoAuthFailedRef, selectedAuthType, authError, authFlows>>

\* performAuthFlow, lines 16-20: config.refreshAuth resolved, onComplete awaited.
RefreshAuthResolved(f) ==
    /\ f \in BagToSet(authFlows)
    /\ f.pc = "refreshAuth"
    /\ authFlows' = (authFlows (-) SetToBag({f})) (+)
                       SetToBag({AuthFlow(f.kind, "onComplete", f.method)})
    /\ lastAuthEvent' = "refreshAuthResolved"
    /\ UNCHANGED notAuth
    /\ UNCHANGED autoAuthSucceeded
    /\ UNCHANGED <<isAuthDialogOpen, isAuthenticating, isUserInitiatedAuthRef,
                   hasAutoAuthFailedRef, selectedAuthType, authError, effectDue>>

\* The effect's authFlow after performAuthFlow resolved: finally, line 61.
AutoAuthSucceeded(f) ==
    /\ f \in BagToSet(authFlows)
    /\ f.kind = "auto" /\ f.pc = "onComplete"
    /\ isAuthenticating' = FALSE
    /\ authFlows' = authFlows (-) SetToBag({f})
    /\ lastAuthEvent' = "autoOk"
    /\ UNCHANGED notAuth
    /\ autoAuthSucceeded' = TRUE
    /\ UNCHANGED <<isAuthDialogOpen, isUserInitiatedAuthRef,
                   hasAutoAuthFailedRef, selectedAuthType, authError, effectDue>>

\* The effect's authFlow after performAuthFlow rejected (config.refreshAuth or
\* onComplete threw): catch and finally, lines 56-62.
AutoAuthFailed(f) ==
    /\ f \in BagToSet(authFlows)
    /\ f.kind = "auto" /\ f.pc \in {"refreshAuth", "onComplete"}
    /\ authError' = LoginFailed
    /\ hasAutoAuthFailedRef' = TRUE
    /\ SetIsAuthDialogOpen(TRUE)
    /\ isAuthenticating' = FALSE
    /\ authFlows' = authFlows (-) SetToBag({f})
    /\ lastAuthEvent' = "autoFail"
    /\ UNCHANGED notAuth
    /\ UNCHANGED autoAuthSucceeded
    /\ UNCHANGED <<isUserInitiatedAuthRef, selectedAuthType>>

\* handleAuthSelect(authMethod) with a method, lines 70-76: up to the await of
\* clearCachedCredentialFile.
HandleAuthSelect(m) ==
    /\ BagCardinality(authFlows) < MaxAuthFlows
    /\ isUserInitiatedAuthRef' = TRUE
    /\ hasAutoAuthFailedRef' = FALSE
    /\ authFlows' = authFlows (+) SetToBag({AuthFlow("user", "clearCred", m)})
    /\ lastAuthEvent' = "selectStart"
    /\ UNCHANGED notAuth
    /\ autoAuthSucceeded' = FALSE
    /\ UNCHANGED <<isAuthDialogOpen, isAuthenticating, selectedAuthType,
                   authError, effectDue>>

\* handleAuthSelect, lines 77-82: clearCachedCredentialFile resolved; the method
\* is persisted and the attempt starts.
SelectCredCleared(f) ==
    /\ f \in BagToSet(authFlows)
    /\ f.kind = "user" /\ f.pc = "clearCred"
    /\ selectedAuthType' = f.method
    /\ isAuthenticating' = TRUE
    /\ authFlows' = (authFlows (-) SetToBag({f})) (+)
                       SetToBag({AuthFlow("user", "refreshAuth", f.method)})
    /\ lastAuthEvent' = "selectAttempt"
    /\ UNCHANGED notAuth
    /\ UNCHANGED autoAuthSucceeded
    /\ UNCHANGED <<isAuthDialogOpen, isUserInitiatedAuthRef,
                   hasAutoAuthFailedRef, authError, effectDue>>

\* A rejected clearCachedCredentialFile that is swallowed: the method is
\* persisted and the attempt starts all the same.
SelectCredClearFailedStartsAttempt(f) ==
    /\ f \in BagToSet(authFlows)
    /\ f.kind = "user" /\ f.pc = "clearCred"
    /\ selectedAuthType' = f.method
    /\ isAuthenticating' = TRUE
    /\ authFlows' = (authFlows (-) SetToBag({f})) (+)
                       SetToBag({AuthFlow("user", "refreshAuth", f.method)})
    /\ lastAuthEvent' = "selectClearFail"
    /\ UNCHANGED notAuth
    /\ UNCHANGED <<isAuthDialogOpen, isUserInitiatedAuthRef,
                   hasAutoAuthFailedRef, authError, effectDue,
                   autoAuthSucceeded>>

\* handleAuthSelect, line 76: clearCachedCredentialFile rejected; the exception
\* leaves handleAuthSelect (the try of line 80 has not been entered).
SelectCredClearFailed(f) ==
    /\ f \in BagToSet(authFlows)
    /\ f.kind = "user" /\ f.pc = "clearCred"
    /\ authFlows' = authFlows (-) SetToBag({f})
    /\ lastAuthEvent' = "selectClearFail"
    /\ UNCHANGED notAuth
    /\ UNCHANGED autoAuthSucceeded
    /\ UNCHANGED <<isAuthDialogOpen, isAuthenticating, isUserInitiatedAuthRef,
                   hasAutoAuthFailedRef, selectedAuthType, authError, effectDue>>

\* handleAuthSelect after performAuthFlow resolved: finally (lines 93-97), then
\* lines 99-100.
SelectAuthSucceeded(f) ==
    /\ f \in BagToSet(authFlows)
    /\ f.kind = "user" /\ f.pc = "onComplete"
    /\ isAuthenticating' = FALSE
    /\ isUserInitiatedAuthRef' = FALSE
    /\ SetIsAuthDialogOpen(FALSE)
    /\ authError' = NoError
    /\ authFlows' = authFlows (-) SetToBag({f})
    /\ lastAuthEvent' = "selectOk"
    /\ UNCHANGED notAuth
    /\ UNCHANGED autoAuthSucceeded
    /\ UNCHANGED <<hasAutoAuthFailedRef, selectedAuthType>>

\* The failure path that goes on to lines 99-100: the dialog is closed and the
\* error cleared.
SelectAuthFailedClosesDialog(f) ==
    /\ f \in BagToSet(authFlows)
    /\ f.kind = "user" /\ f.pc \in {"refreshAuth", "onComplete"}
    /\ authError' = NoError
    /\ isUserInitiatedAuthRef' = FALSE
    /\ isAuthenticating' = FALSE
    /\ SetIsAuthDialogOpen(FALSE)
    /\ authFlows' = authFlows (-) SetToBag({f})
    /\ lastAuthEvent' = "selectFail"
    /\ UNCHANGED notAuth
    /\ UNCHANGED <<hasAutoAuthFailedRef, selectedAuthType, autoAuthSucceeded>>

\* handleAuthSelect after performAuthFlow rejected: catch (lines 87-92) and
\* finally (lines 93-97); the return of line 92 skips lines 99-100.
SelectAuthFailed(f) ==
    /\ f \in BagToSet(authFlows)
    /\ f.kind = "user" /\ f.pc \in {"refreshAuth", "onComplete"}
    /\ authError' = LoginFailed
    /\ isUserInitiatedAuthRef' = FALSE
    /\ isAuthenticating' = FALSE
    /\ authFlows' = authFlows (-) SetToBag({f})
    /\ lastAuthEvent' = "selectFail"
    /\ UNCHANGED notAuth
    /\ UNCHANGED autoAuthSucceeded
    /\ UNCHANGED <<isAuthDialogOpen, hasAutoAuthFailedRef, selectedAuthType,
                   effectDue>>

\* handleAuthSelect(undefined), lines 70 and 99-100: the dialog is closed
\* without a selection.
HandleAuthSelectNone ==
    /\ SetIsAuthDialogOpen(FALSE)
    /\ authError' = NoError
    /\ lastAuthEvent' = "selectNone"
    /\ UNCHANGED notAuth
    /\ UNCHANGED autoAuthSucceeded
    /\ UNCHANGED <<isAuthenticating, isUserInitiatedAuthRef,
                   hasAutoAuthFailedRef, selectedAuthType, authFlows>>

\* openAuthDialog, lines 32-34.
OpenAuthDialog ==
    /\ SetIsAuthDialogOpen(TRUE)
    /\ lastAuthEvent' = "openDialog"
    /\ UNCHANGED notAuth
    /\ UNCHANGED autoAuthSucceeded
    /\ UNCHANGED <<isAuthenticating, isUserInitiatedAuthRef,
                   hasAutoAuthFailedRef, selectedAuthType, authError, authFlows>>

\* cancelAuthentication that also closes the dialog and clears the error.
CancelAuthenticationAndDismiss ==
    /\ isAuthenticating' = FALSE
    /\ SetIsAuthDialogOpen(FALSE)
    /\ authError' = NoError
    /\ lastAuthEvent' = "cancel"
    /\ UNCHANGED notAuth
    /\ UNCHANGED <<isUserInitiatedAuthRef, hasAutoAuthFailedRef,
                   selectedAuthType, authFlows, autoAuthSucceeded>>

\* cancelAuthentication, lines 109-111.
CancelAuthentication ==
    /\ isAuthenticating' = FALSE
    /\ lastAuthEvent' = "cancel"
    /\ UNCHANGED notAuth
    /\ UNCHANGED autoAuthSucceeded
    /\ UNCHANGED <<isAuthDialogOpen, isUserInitiatedAuthRef,
                   hasAutoAuthFailedRef, selectedAuthType, authError,
                   effectDue, authFlows>>

AuthFlowKinds ==
    {AuthFlow(k, pc, m) : k \in {"auto", "user"},
                          pc \in {"clearCred", "refreshAuth", "onComplete"},
                          m \in AuthMethods}

AuthNext ==
    \/ EffectRun
    \/ DepsChange
    \/ \E f \in AuthFlowKinds : RefreshAuthResolved(f)
    \/ \E f \in AuthFlowKinds : AutoAuthSucceeded(f)
    \/ \E f \in AuthFlowKinds : AutoAuthFailed(f)
    \/ \E m \in AuthMethods : HandleAuthSelect(m)
    \/ \E f \in AuthFlowKinds : SelectCredCleared(f)
    \/ \E f \in AuthFlowKinds : SelectCredClearFailed(f)
    \/ \E f \in AuthFlowKinds : SelectAuthSucceeded(f)
    \/ \E f \in AuthFlowKinds : SelectAuthFailed(f)
    \/ HandleAuthSelectNone
    \/ OpenAuthDialog
    \/ CancelAuthentication

(***************************************************************************)
(*                     TEXT, PARTS, TURNS (Message Model)                  *)
(***************************************************************************)

\* A string is a sequence of characters; " " is the whitespace character.
Blank == <<" ">>
Empty == <<>>

\* A trim test that finds no string blank.
NeverBlank(s) == FALSE

\* s.trim() is the empty string (falsy).
IsBlank(s) == \A i \in 1..Len(s) : s[i] = " "

\* A Part with a text field, and one without (a function call).
TextPart(t) == [text |-> t]
NonTextPart == [functionCall |-> "fn"]

\* parts.map(part => 'text' in part ? (part.text || '') : '').join('')
RECURSIVE JoinText(_)
JoinText(parts) ==
    IF parts = <<>> THEN Empty
    ELSE (IF "text" \in DOMAIN Head(parts) THEN Head(parts).text ELSE Empty)
           \o JoinText(Tail(parts))

\* A JavaScript value whose type the code tests (typeof, Array.isArray): a
\* string, an array or an object.
Str(t) == [kind |-> "string", value |-> t]
Arr(xs) == [kind |-> "array", value |-> xs]
Obj(o) == [kind |-> "object", value |-> o]

\* A Content (turn) of the history.
Turn(role, parts) == [role |-> role, parts |-> parts]

\* obj.field, or dflt when the field is undefined.
Get(obj, field, dflt) == IF field \in DOMAIN obj THEN obj[field] ELSE dflt

(***************************************************************************)
(*                 ARRAYS HANDED TO A CALLER (references)                  *)
(***************************************************************************)

\* A JavaScript array a caller holds: the session's own array (the same
\* object), or a new array with elements of its own.
SameArray == [ref |-> "this.history"]
NewArray(elems) == [ref |-> "new", elems |-> elems]
NoView == [ref |-> "none"]

\* What a caller does to the array it holds: push, pop, or assign element 0.
ArrayOps == {"push", "pop", "assign"}

ApplyArrayOp(op, elems, turn) ==
    CASE op = "push" -> Append(elems, turn)
      [] op = "pop"  -> IF elems = <<>> THEN elems
                        ELSE SubSeq(elems, 1, Len(elems) - 1)
      [] OTHER       -> IF elems = <<>> THEN <<turn>>
                        ELSE [elems EXCEPT ![1] = turn]

(***************************************************************************)
(*                         PROCESS ENVIRONMENT                             *)
(***************************************************************************)

\* An undefined value (a missing environment variable, key or field).
Absent == "undefined"

EnvInit == envDeepSeekKey \in {Absent, "sk-env"}

\* process.env.DEEPSEEK_API_KEY ? 'SET' : 'NOT SET'
EnvKeyState(env) == IF env = Absent THEN "NOT SET" ELSE "SET"

(***************************************************************************)
(*                 BACKEND RESPONSES AND TRANSPORT ERRORS                  *)
(***************************************************************************)

\* response.data of a 2xx answer: choices[0].message.content and usage, each
\* possibly missing.
Choice(content) == [message |-> [role |-> "assistant", content |-> content]]
ChoiceNoContent == [message |-> [role |-> "assistant"]]
UsageFull == [prompt_tokens |-> 3, completion_tokens |-> 1, total_tokens |-> 4]

ResponseData ==
    { [choices |-> <<Choice(<<"h", "i">>)>>, usage |-> UsageFull],
      [choices |-> <<Choice(<<"h", "i">>)>>],
      [choices |-> <<ChoiceNoContent>>, usage |-> [prompt_tokens |-> 3]],
      [choices |-> <<>>] }

\* What axios.post rejects with: an error with a response (non-2xx status), or
\* one without (network failure; CanceledError when the signal is aborted).
HttpError(status, data) ==
    [name |-> "AxiosError", message |-> <<"Request failed with status code ", ToString(status)>>,
     response |-> [status |-> status, statusText |-> "status text", data |-> data]]
NetworkError == [name |-> "AxiosError", message |-> <<"Network Error">>]
CanceledError == [name |-> "CanceledError", message |-> <<"canceled">>]

ErrorBody(msg) == [error |-> [message |-> msg]]
NoErrorBody == [detail |-> "none"]

HttpStatuses == {401, 403, 500}

HttpErrors ==
    {HttpError(st, d) : st \in HttpStatuses,
                        d \in {ErrorBody("backend message"), NoErrorBody}}

\* new Error(...) thrown by the code itself.
ThrownError(message) == [name |-> "Error", message |-> message]

\* The 403 diagnostic of DeepSeekChat.sendMessageStream (lines 181-185) and of
\* generateContentWithSystemPrompt (lines 444-448).
AuthFailedMessage(env) ==
    <<"DeepSeek API authentication failed. Environment variable DEEPSEEK_API_KEY: ",
      EnvKeyState(env), ". Please check your API key.">>

\* error.response?.status (0 stands for undefined: there is no response)
ResponseStatus(error) ==
    IF "response" \in DOMAIN error THEN error.response.status ELSE 0

(***************************************************************************)
(*                  CONVERSATION SESSION: DeepSeekChat                     *)
(***************************************************************************)

\* Bounds: turns in a history, and sendMessageStream calls awaiting the network.
MaxHistory == 4
MaxPending == 2

\* params.message: a string, a Part[] or a Part (line 90).
StringMessage(t) == Str(t)
ArrayMessage(parts) == Arr(parts)
PartMessage(part) == Obj(part)

Messages ==
    { StringMessage(<<"q">>), StringMessage(Blank),
      ArrayMessage(<<TextPart(<<"q">>), NonTextPart, TextPart(<<"q">>)>>),
      PartMessage(TextPart(<<"q">>)), PartMessage(NonTextPart) }

\* Lines 92-101: the message as a string.
MessageText(message) ==
    CASE message.kind = "string" -> message.value
      [] message.kind = "array"  -> JoinText(message.value)
      [] OTHER -> IF "text" \in DOMAIN message.value
                  THEN message.value.text ELSE Empty

\* Lines 121-130: the history as DeepSeek messages; blank turns are left out.
RECURSIVE HistoryToMessages(_)
HistoryToMessages(history) ==
    IF history = <<>> THEN <<>>
    ELSE LET content == Head(history)
             r    == Get(content, "role", Absent)
             role == IF r = "model" THEN "assistant"
                     ELSE IF r \in {Absent, ""} THEN "user" ELSE r
             text == JoinText(Get(content, "parts", <<>>))
         IN  (IF IsBlank(text) THEN <<>>
              ELSE <<[role |-> role, content |-> text]>>)
               \o HistoryToMessages(Tail(history))

\* Lines 109-130: the messages of a request.
BuildMessages(systemPrompt, history) ==
    (IF IsBlank(systemPrompt) THEN <<>>
     ELSE <<[role |-> "system", content |-> systemPrompt]>>)
      \o HistoryToMessages(history)

\* Line 150: deepseekResponse.choices[0]?.message?.content || ''
AssistantMessage(data) ==
    IF Len(data.choices) = 0 THEN Empty
    ELSE Get(Get(data.choices[1], "message", [none |-> 0]), "content", Empty)

\* usage?.field without the default: -1 stands for undefined.
UsageCountOrUndefined(data, field) ==
    Get(Get(data, "usage", [none |-> 0]), field, -1)

\* usage?.field || 0
UsageCount(data, field) == Get(Get(data, "usage", [none |-> 0]), field, 0)

\* Lines 159-172: the GenerateContentResponse the session builds.
ChatResponse(data) ==
    [candidates |-> <<[content |-> Turn("model", <<TextPart(AssistantMessage(data))>>),
                       finishReason |-> "STOP"]>>,
     usageMetadata |-> [promptTokenCount |-> UsageCount(data, "prompt_tokens"),
                        candidatesTokenCount |-> UsageCount(data, "completion_tokens"),
                        totalTokenCount |-> UsageCount(data, "total_tokens")]]

\* Lines 179-188: what the catch block throws for an axios error.
ChatThrown(error) ==
    IF ResponseStatus(error) = 403
    THEN ThrownError(AuthFailedMessage(envDeepSeekKey)) ELSE error

\* No call has settled yet.
NoCall == [outcome |-> "none"]

\* A caller-supplied abort signal: none, not aborted, aborted.
Signals == {"none", "live", "aborted"}

DSPendingCalls == BagToSet(dsPending)

\* sendMessageStream, lines 90-147: the user turn is pushed, the messages are
\* built from the history and axios.post is called.
DSChatSend(message, signal) ==
    /\ clientChat
    /\ BagCardinality(dsPending) < MaxPending
    \* room for this call's two turns and the replies of the pending calls
    /\ Len(dsHistory) + BagCardinality(dsPending) + 2 <= MaxHistory
    /\ LET text    == MessageText(message)
           pushed  == Append(dsHistory, Turn("user", <<TextPart(text)>>))
           request == [text |-> text,
                       messages |-> BuildMessages(dsSystemPrompt, pushed),
                       signal |-> signal,
                       before |-> dsHistory]
       IN  /\ dsHistory' = pushed
           /\ dsPending' = dsPending (+) SetToBag({request})
    /\ lastSessEvent' = "dsSend"
    /\ UNCHANGED notSess
    /\ UNCHANGED clientVars
    /\ UNCHANGED <<dsSystemPrompt, dsLast, dsView>>

\* The caller aborts the signal of a pending call.
DSChatAbort(request) ==
    /\ request \in DSPendingCalls
    /\ request.signal = "live"
    /\ dsPending' = (dsPending (-) SetToBag({request})) (+)
                       SetToBag({[request EXCEPT !.signal = "aborted"]})
    /\ lastSessEvent' = "dsAbort"
    /\ UNCHANGED notSess
    /\ UNCHANGED clientVars
    /\ UNCHANGED <<dsHistory, dsSystemPrompt, dsLast, dsView>>

\* sendMessageStream, lines 149-177: axios.post resolved with a 2xx response.
DSChatResponse(request, data) ==
    /\ request \in DSPendingCalls
    /\ request.signal # "aborted"
    /\ dsPending' = dsPending (-) SetToBag({request})
    /\ dsHistory' = Append(dsHistory,
                           Turn("model", <<TextPart(AssistantMessage(data))>>))
    /\ dsLast' = [outcome |-> "stream", request |-> request, data |-> data,
                  events |-> <<ChatResponse(data)>>]
    /\ lastSessEvent' = "dsResponse"
    /\ UNCHANGED notSess
    /\ UNCHANGED clientVars
    /\ UNCHANGED <<dsSystemPrompt, dsView>>

\* sendMessageStream, lines 179-188: axios.post rejected.
DSChatError(request, error) ==
    /\ request \in DSPendingCalls
    /\ (request.signal = "aborted") <=> (error = CanceledError)
    /\ dsPending' = dsPending (-) SetToBag({request})
    /\ dsLast' = [outcome |-> "throw", request |-> request,
                  error |-> ChatThrown(error)]
    /\ lastSessEvent' = "dsError"
    /\ UNCHANGED notSess
    /\ UNCHANGED clientVars
    /\ UNCHANGED <<dsHistory, dsSystemPrompt, dsView>>

\* DeepSeekChat.addHistory, lines 78-80.
DSAddHistory(content) ==
    /\ Len(dsHistory) < MaxHistory
    /\ dsHistory' = Append(dsHistory, content)
    /\ lastSessEvent' = "dsAddHistory"
    /\ UNCHANGED notSess
    /\ UNCHANGED clientVars
    /\ UNCHANGED <<dsSystemPrompt, dsPending, dsLast, dsView>>

\* DeepSeekChat.getHistory, lines 82-84: [...this.history].
DeepSeekChat_getHistory == NewArray(dsHistory)

\* A caller calls getHistory and keeps the array.
DSGetHistory ==
    /\ dsView' = DeepSeekChat_getHistory
    /\ lastSessEvent' = "dsGetHistory"
    /\ UNCHANGED notSess
    /\ UNCHANGED clientVars
    /\ UNCHANGED <<dsHistory, dsSystemPrompt, dsPending, dsLast>>

\* DeepSeekChat.setHistory, lines 86-88, with the array the caller holds:
\* this.history = [...history].
DSSetHistory ==
    /\ dsView # NoView
    /\ dsHistory' = IF dsView.ref = "new" THEN dsView.elems ELSE dsHistory
    /\ lastSessEvent' = "dsSetHistory"
    /\ UNCHANGED notSess
    /\ UNCHANGED clientVars
    /\ UNCHANGED <<dsSystemPrompt, dsPending, dsLast, dsView>>

\* The caller changes the array it got from getHistory.
DSCallerMutates(op, turn) ==
    /\ dsView # NoView
    /\ IF dsView.ref = "this.history"
       THEN /\ Len(dsHistory) < MaxHistory
            /\ dsHistory' = ApplyArrayOp(op, dsHistory, turn)
            /\ UNCHANGED dsView
       ELSE /\ Len(dsView.elems) < MaxHistory
            /\ dsView' = NewArray(ApplyArrayOp(op, dsView.elems, turn))
            /\ UNCHANGED dsHistory
    /\ lastSessEvent' = "dsCallerMutates"
    /\ UNCHANGED notSess
    /\ UNCHANGED clientVars
    /\ UNCHANGED <<dsSystemPrompt, dsPending, dsLast>>

\* Contents a caller adds or writes: a user turn, a model turn, a turn
\* without a role.
CallerTurns ==
    { Turn("user", <<TextPart(<<"q">>)>>),
      Turn("model", <<TextPart(<<"h", "i">>)>>),
      [parts |-> <<TextPart(Blank)>>] }

SessInit ==
    /\ dsView = NoView
    /\ dsHistory = <<>>
    /\ dsSystemPrompt \in {Empty, Blank, <<"s">>}
    /\ dsPending = EmptyBag
    /\ dsLast = NoCall
    /\ lastSessEvent = "new"

\* The errors axios.post rejects with in the session's runs.
SessErrors ==
    {HttpError(st, ErrorBody("backend message")) : st \in HttpStatuses}
        \cup {NetworkError, CanceledError}

SessNext ==
    \/ \E m \in Messages, sig \in Signals : DSChatSend(m, sig)
    \/ \E r \in DSPendingCalls : DSChatAbort(r)
    \/ \E r \in DSPendingCalls, d \in ResponseData : DSChatResponse(r, d)
    \/ \E r \in DSPendingCalls, e \in SessErrors : DSChatError(r, e)

(***************************************************************************)
(*                     CONVERSATION SESSION: Chat                          *)
(***************************************************************************)

\* Chat.MAX_TURNS, the default of the turns parameter.
MAX_TURNS == 100

\* The object of lines 28-37.
MockTurn == [pendingToolCalls |-> <<>>, mock |-> "Mock response from Chat class"]

\* The event of lines 42-45.
ContentEvent(value) == [type |-> "content", value |-> value]

\* Chat.sendMessageStream, lines 19-48, run to completion by its consumer:
\* request, signal and turns are not read.
ChatSendMessageStream(request, signal, turns) ==
    /\ Len(chatHistory) < MaxHistory
    /\ chatHistory' = Append(chatHistory, MockTurn)
    /\ chatLast' = [outcome |-> "stream", request |-> request, signal |-> signal,
                    turns |-> turns, before |-> chatHistory,
                    events |-> <<ContentEvent("Mock response from Chat class")>>,
                    returned |-> MockTurn]
    /\ lastChatEvent' = "chatSend"
    /\ UNCHANGED chatView
    /\ UNCHANGED notChat

\* Chat.getHistory, lines 50-52: return this.history.
Chat_getHistory == SameArray

\* A caller calls getHistory and keeps the array.
ChatGetHistory ==
    /\ chatView' = Chat_getHistory
    /\ lastChatEvent' = "chatGetHistory"
    /\ UNCHANGED notChat
    /\ UNCHANGED <<chatHistory, chatLast>>

\* The caller changes the array it got from getHistory.
ChatCallerMutates(op, turn) ==
    /\ chatView # NoView
    /\ IF chatView.ref = "this.history"
       THEN /\ Len(chatHistory) < MaxHistory
            /\ chatHistory' = ApplyArrayOp(op, chatHistory, turn)
            /\ UNCHANGED chatView
       ELSE /\ Len(chatView.elems) < MaxHistory
            /\ chatView' = NewArray(ApplyArrayOp(op, chatView.elems, turn))
            /\ UNCHANGED chatHistory
    /\ lastChatEvent' = "chatCallerMutates"
    /\ UNCHANGED notChat
    /\ UNCHANGED chatLast

ChatInit ==
    /\ chatHistory = <<>>
    /\ chatLast = NoCall
    /\ chatView = NoView
    /\ lastChatEvent = "new"

\* The requests, signals and turn budgets Chat.sendMessageStream is called with.
ChatRequests == {StringMessage(<<"q">>), PartMessage(NonTextPart)}
ChatSignals == {"none", "aborted"}
ChatTurnBudgets == {0, MAX_TURNS}

ChatNext ==
    \/ \E m \in ChatRequests, sig \in ChatSignals, t \in ChatTurnBudgets :
          ChatSendMessageStream(m, sig, t)
    \/ ChatGetHistory
    \/ \E op \in ArrayOps :
          ChatCallerMutates(op, Turn("user", <<TextPart(<<"q">>)>>))

\* DeepSeekChat as a store of history: addHistory, getHistory, setHistory and
\* a caller that changes the arrays it was given.
SnapNext ==
    \/ \E c \in CallerTurns : DSAddHistory(c)
    \/ DSGetHistory
    \/ DSSetHistory
    \/ \E op \in ArrayOps, t \in CallerTurns : DSCallerMutates(op, t)

(***************************************************************************)
(*              DeepSeekClient: the owner of the DeepSeekChat              *)
(***************************************************************************)

\* The client before initialize() holds no chat; the prompt of a chat is the
\* one its constructor was given (systemPrompt || '', line 75).
ClientInit ==
    /\ clientChat \in BOOLEAN
    /\ promptSet = dsSystemPrompt

\* initialize() / startChat(extraHistory), lines 214-252: a new chat with the
\* core system prompt (getCoreSystemPrompt(userMemory)) and the extra history.
\* Calls pending on the replaced chat settle on that object, which the
\* client no longer holds.
ClientStartChat(systemInstruction, extraHistory) ==
    /\ clientChat' = TRUE
    /\ dsSystemPrompt' = systemInstruction
    /\ promptSet' = systemInstruction
    /\ dsHistory' = extraHistory
    /\ dsPending' = EmptyBag
    /\ lastSessEvent' = "startChat"
    /\ UNCHANGED <<dsLast, dsView>>
    /\ UNCHANGED notSess

\* updateSystemPrompt that leaves the chat's prompt as it was.
ClientUpdateSystemPromptIgnored(systemPrompt) ==
    /\ promptSet' = IF clientChat THEN systemPrompt ELSE promptSet
    /\ lastSessEvent' = "updateSystemPrompt"
    /\ UNCHANGED <<clientChat, dsSystemPrompt, dsHistory, dsPending, dsLast, dsView>>
    /\ UNCHANGED notSess

\* updateSystemPrompt(systemPrompt), lines 227-231: the field of the existing
\* chat is assigned; without a chat nothing happens.
ClientUpdateSystemPrompt(systemPrompt) ==
    /\ dsSystemPrompt' = IF clientChat THEN systemPrompt ELSE dsSystemPrompt
    /\ promptSet' = IF clientChat THEN systemPrompt ELSE promptSet
    /\ lastSessEvent' = "updateSystemPrompt"
    /\ UNCHANGED <<clientChat, dsHistory, dsPending, dsLast, dsView>>
    /\ UNCHANGED notSess

\* resetChat that builds the new chat without a system prompt.
ClientResetChatDropsPrompt ==
    /\ clientChat' = TRUE
    /\ dsSystemPrompt' = Empty
    /\ promptSet' = Empty
    /\ dsHistory' = <<>>
    /\ dsPending' = EmptyBag
    /\ lastSessEvent' = "resetChat"
    /\ UNCHANGED <<dsLast, dsView>>
    /\ UNCHANGED notSess

\* resetChat(), lines 266-270: a new chat with the current system prompt.
ClientResetChat ==
    /\ clientChat' = TRUE
    /\ dsSystemPrompt' = IF clientChat THEN dsSystemPrompt ELSE Empty
    /\ promptSet' = IF clientChat THEN dsSystemPrompt ELSE Empty
    /\ dsHistory' = <<>>
    /\ dsPending' = EmptyBag
    /\ lastSessEvent' = "resetChat"
    /\ UNCHANGED <<dsLast, dsView>>
    /\ UNCHANGED notSess

\* The prompts and histories the client is given.
CorePrompts == {Empty, <<"s">>}
UpdatedPrompts == {Blank, <<"s">>, <<"t">>}
ExtraHistories == {<<>>, <<Turn("user", <<TextPart(<<"q">>)>>)>>}

\* The client through a conversation: chats are started and reset, the prompt
\* is updated, turns are sent and answered or fail.
ClientNext ==
    \/ \E p \in CorePrompts, h \in ExtraHistories : ClientStartChat(p, h)
    \/ \E p \in UpdatedPrompts : ClientUpdateSystemPrompt(p)
    \/ ClientResetChat
    \/ DSChatSend(StringMessage(<<"q">>), "none")
    \/ \E r \in DSPendingCalls :
          DSChatResponse(r, [choices |-> <<Choice(<<"h", "i">>)>>, usage |-> UsageFull])
    \/ \E r \in DSPendingCalls : DSChatError(r, NetworkError)

(***************************************************************************)
(*        PROVIDER ADAPTER: DeepSeekClient and LLMProviderAdapter          *)
(***************************************************************************)

\* Bound: items in the contents list of a request.
MaxContents == 2

\* An undefined value where the code expects a string, array or object.
Undefined == [kind |-> "undefined"]

\* if (x): undefined and the empty string are falsy.
Truthy(x) == x.kind # "undefined" /\ ~(x.kind = "string" /\ x.value = Empty)

\* config.getProviders(): the stored API key of each provider, if any.
ProviderKeys(deepseek, google) == [deepseek |-> deepseek, google |-> google]

\* Line 198: this.config.getProviders()?.deepseek?.apiKey || ''
ApiKey(providers) ==
    IF providers.deepseek = Absent THEN "" ELSE providers.deepseek

\* Line 279: JSON.stringify(configProviders, null, 2), as its pieces.
ProvidersJson(providers) ==
    (IF providers.deepseek = Absent THEN <<>>
     ELSE <<"deepseek.apiKey: ", providers.deepseek>>)
      \o (IF providers.google = Absent THEN <<>>
          ELSE <<"google.apiKey: ", providers.google>>)

\* Lines 276-281: the message of the missing-key error.
MissingKeyMessage(providers, env) ==
    <<"DEEPSEEK_API_KEY is not configured.",
      "Environment variable DEEPSEEK_API_KEY: ", EnvKeyState(env),
      "Config providers: ">> \o ProvidersJson(providers)
      \o <<"Please set the DEEPSEEK_API_KEY environment variable.">>

\* A request that never reached axios.post, and one that did.
NoWire == [sent |-> FALSE]
Wire(body, key, signal) ==
    [sent |-> TRUE, body |-> body, authorization |-> <<"Bearer ", key>>,
     signal |-> signal]

\* What axios.post settles with: it rejects with CanceledError when the signal
\* it was handed is aborted, else the backend answers.
AxiosPost(wire, backend) ==
    IF wire.signal = "aborted" THEN CanceledError ELSE backend

\* axios.post rejected (an error) rather than resolved (response.data).
IsError(settled) == "name" \in DOMAIN settled

\* error.response.data?.error?.message || error.response.statusText
ErrorText(error) ==
    Get(Get(error.response.data, "error", [none |-> 0]), "message",
        error.response.statusText)

\* convertTurnsToMessages, lines 313-324: the history is not read.
HelloText ==
    <<"H", "e", "l", "l", "o", ",", " ", "h", "o", "w", " ", "c", "a", "n",
      " ", "y", "o", "u", " ", "h", "e", "l", "p", " ", "m", "e", "?">>

ConvertTurnsToMessages(history) == <<[role |-> "user", content |-> HelloText]>>

\* convertDeepSeekResponseToGeminiFormat, lines 326-352.
ConvertDeepSeekResponseToGeminiFormat(data) ==
    LET choices == Get(data, "choices", <<>>)
        choice  == IF Len(choices) = 0 THEN [none |-> 0] ELSE choices[1]
        content == Get(Get(choice, "message", [none |-> 0]), "content", Empty)
    IN  [candidates |-> <<[content |-> [parts |-> <<TextPart(content)>>,
                                        role |-> "model"],
                           finishReason |-> "STOP",
                           index |-> 0,
                           safetyRatings |-> <<>>]>>,
         usageMetadata |->
             [promptTokenCount |-> UsageCount(data, "prompt_tokens"),
              candidatesTokenCount |-> UsageCount(data, "completion_tokens"),
              totalTokenCount |-> UsageCount(data, "total_tokens")],
         promptFeedback |-> [safetyRatings |-> <<>>]]

\* What a call settles with.
Returned(value, wire) == [outcome |-> "return", value |-> value, wire |-> wire]
Threw(error, wire) == [outcome |-> "throw", error |-> error, wire |-> wire]
Streamed(events, wire) == [outcome |-> "stream", events |-> events, wire |-> wire]

\* DeepSeekClient.generateContent, lines 272-311.
DeepSeekClient_generateContent(providers, env, history, backend) ==
    IF ApiKey(providers) = ""
    THEN Threw(ThrownError(MissingKeyMessage(providers, env)), NoWire)
    ELSE LET body == [model |-> "deepseek-chat",
                      messages |-> ConvertTurnsToMessages(history),
                      stream |-> FALSE]
             wire == Wire(body, ApiKey(providers), Absent)
             settled == AxiosPost(wire, backend)
         IN  IF ~IsError(settled)
             THEN Returned(ConvertDeepSeekResponseToGeminiFormat(settled), wire)
             ELSE IF "response" \in DOMAIN settled
             THEN Threw(ThrownError(
                      <<"API Error: ", ErrorText(settled), " (Status: ",
                        IF settled.response.status = 403 THEN "Forbidden"
                        ELSE ToString(settled.response.status), ")">>), wire)
             ELSE Threw(settled, wire)

\* parts.map(part => part.text || '').join(''), lines 373-375 and 408-410.
RECURSIVE JoinPartText(_)
JoinPartText(parts) ==
    IF parts = <<>> THEN Empty
    ELSE Get(Head(parts), "text", Empty) \o JoinPartText(Tail(parts))

\* Lines 363-379: the system instruction as a string.
RECURSIVE JoinUnion(_)
JoinUnion(xs) ==
    IF xs = <<>> THEN Empty
    ELSE (IF "kind" \in DOMAIN Head(xs) THEN Head(xs).value
          ELSE Get(Head(xs), "text", Empty)) \o JoinUnion(Tail(xs))

SystemContent(si) ==
    CASE si.kind = "string" -> si.value
      [] si.kind = "array"  -> JoinUnion(si.value)
      [] si.kind = "object" /\ "parts" \in DOMAIN si.value ->
             JoinPartText(si.value.parts)
      [] si.kind = "object" /\ "text" \in DOMAIN si.value -> si.value.text
      [] OTHER -> Empty

\* Lines 396-405: a contents item as a Content.
ItemContent(item) ==
    CASE item.kind = "string" -> Turn("user", <<TextPart(item.value)>>)
      [] item.kind = "array"  -> Turn("user", item.value)
      [] item.kind = "object" /\ "parts" \in DOMAIN item.value -> item.value
      [] OTHER -> Turn("user", <<item.value>>)

\* Lines 394-418: the contents as DeepSeek messages; blank ones are left out,
\* and content.role is passed on unless it is 'model'.
RECURSIVE ContentsToMessages(_)
ContentsToMessages(items) ==
    IF items = <<>> THEN <<>>
    ELSE LET content == ItemContent(Head(items))
             r    == Get(content, "role", Absent)
             role == IF r = "model" THEN "assistant" ELSE r
             text == JoinPartText(Get(content, "parts", <<>>))
         IN  (IF IsBlank(text) THEN <<>>
              ELSE <<[role |-> role, content |-> text]>>)
               \o ContentsToMessages(Tail(items))

\* Lines 359-419: the messages of a request.
RequestMessages(req) ==
    LET config   == Get(req, "config", [none |-> 0])
        si       == Get(config, "systemInstruction", Undefined)
        contents == Get(req, "contents", Undefined)
    IN  (IF Truthy(si) /\ ~IsBlank(SystemContent(si))
         THEN <<[role |-> "system", content |-> SystemContent(si)]>>
         ELSE <<>>)
         \o (IF Truthy(contents)
             THEN ContentsToMessages(IF contents.kind = "array"
                                     THEN contents.value ELSE <<contents>>)
             ELSE <<>>)

\* DeepSeekClient.generateContentWithSystemPrompt, lines 358-455.
DeepSeekClient_generateContentWithSystemPrompt(providers, env, req, backend) ==
    LET config == Get(req, "config", [none |-> 0])
        body == [model |-> "deepseek-chat",
                 messages |-> RequestMessages(req),
                 stream |-> FALSE,
                 temperature |-> Get(config, "temperature", 0),
                 top_p |-> Get(config, "topP", 1),
                 max_tokens |-> Get(config, "maxOutputTokens", 8192)]
        wire == Wire(body, ApiKey(providers), Get(config, "abortSignal", Absent))
        settled == AxiosPost(wire, backend)
    IN  IF ~IsError(settled)
        THEN Returned(ConvertDeepSeekResponseToGeminiFormat(settled), wire)
        ELSE IF ResponseStatus(settled) = 403
        THEN Threw(ThrownError(AuthFailedMessage(env)), wire)
        ELSE IF "response" \in DOMAIN settled
        THEN Threw(ThrownError(
                 <<"DeepSeek API Error: ", ErrorText(settled), " (Status: ",
                   ToString(settled.response.status), ")">>), wire)
        ELSE Threw(settled, wire)

\* 'generateContentWithSystemPrompt' in this.llmProvider: the provider the
\* factory wraps is a DeepSeekClient, which has the method (line 358).
ProviderHasSystemPromptMethod == TRUE

\* LLMProviderAdapter.generateContent, contentGenerator.ts lines 75-88.
LLMProviderAdapter_generateContent(providers, env, req, backend) ==
    IF ProviderHasSystemPromptMethod
    THEN DeepSeekClient_generateContentWithSystemPrompt(providers, env, req, backend)
    ELSE DeepSeekClient_generateContent(providers, env, <<>>, backend)

\* The stream with the response yielded twice.
LLMProviderAdapter_generateContentStream_Twice(providers, env, req, backend) ==
    LET response ==
            DeepSeekClient_generateContentWithSystemPrompt(providers, env, req, backend)
    IN  IF response.outcome = "return"
        THEN Streamed(<<response.value, response.value>>, response.wire)
        ELSE response

\* LLMProviderAdapter.generateContentStream, lines 90-106: the events the
\* returned generator yields, or the error the call rejects with.
LLMProviderAdapter_generateContentStream(providers, env, req, backend) ==
    LET response ==
            IF ProviderHasSystemPromptMethod
            THEN DeepSeekClient_generateContentWithSystemPrompt(providers, env, req, backend)
            ELSE LLMProviderAdapter_generateContent(providers, env, req, backend)
    IN  IF response.outcome = "return"
        THEN Streamed(<<response.value>>, response.wire)
        ELSE response

\* The request paths of the adapter and its client.
AdapterPaths ==
    {"adapter.generateContent", "adapter.generateContentStream",
     "client.generateContent"}

\* ---- the requests, configurations and backend behaviours checked ----

SeqsUpTo(S, n) == UNION {[1..k -> S] : k \in 0..n}

UserTurnQ == Turn("user", <<TextPart(<<"q">>)>>)

SystemInstructions ==
    { Str(<<"s">>), Str(Blank), Str(Empty),
      Arr(<<Str(<<"s">>), TextPart(<<"s">>), NonTextPart>>),
      Obj([parts |-> <<TextPart(<<"s">>)>>]),
      Obj(TextPart(<<"s">>)) }

ContentItems ==
    { Str(<<"q">>),
      Arr(<<TextPart(<<"q">>), NonTextPart>>),
      Obj(UserTurnQ),
      Obj(Turn("model", <<TextPart(<<"h", "i">>)>>)),
      Obj([parts |-> <<TextPart(<<"q">>)>>]),
      Obj(Turn("user", <<TextPart(Blank)>>)) }

ContentsValues ==
    { Str(Empty), Str(<<"q">>), Obj(UserTurnQ), Obj(TextPart(<<"q">>)) }
      \cup {Arr(items) : items \in SeqsUpTo(ContentItems, MaxContents)}

Requests ==
    {[contents |-> c] : c \in ContentsValues}
      \cup {[config |-> [systemInstruction |-> si], contents |-> Arr(<<Obj(UserTurnQ)>>)] :
               si \in SystemInstructions}
      \cup {[config |-> [abortSignal |-> sig], contents |-> Arr(<<Obj(UserTurnQ)>>)] :
               sig \in {"live", "aborted"}}
      \cup {[config |-> [systemInstruction |-> Str(<<"s">>)]]}

Backends == ResponseData \cup HttpErrors \cup {NetworkError}

AdapterInit ==
    /\ cfgProviders \in {ProviderKeys(d, g) : d \in {Absent, "sk-deepseek-1"},
                                              g \in {Absent, "sk-google-1"}}
    /\ adReq \in Requests
    /\ adBackend \in Backends
    /\ adResults = [p \in AdapterPaths |-> NoCall]

\* The state the adapter is left in while another component is checked.
AdapterAtRest ==
    /\ cfgProviders = ProviderKeys(Absent, Absent)
    /\ adReq = [contents |-> Str(Empty)]
    /\ adBackend = NetworkError

\* adapter.generateContent(req) is called and settles.
AdapterGenerateContent ==
    /\ adResults["adapter.generateContent"] = NoCall
    /\ adResults' = [adResults EXCEPT !["adapter.generateContent"] =
           LLMProviderAdapter_generateContent(cfgProviders, envDeepSeekKey,
                                              adReq, adBackend)]
    /\ UNCHANGED <<cfgProviders, adReq, adBackend>>
    /\ UNCHANGED notAdapter

\* adapter.generateContentStream(req) is called and its generator drained.
AdapterGenerateContentStream ==
    /\ adResults["adapter.generateContentStream"] = NoCall
    /\ adResults' = [adResults EXCEPT !["adapter.generateContentStream"] =
           LLMProviderAdapter_generateContentStream(cfgProviders, envDeepSeekKey,
                                                    adReq, adBackend)]
    /\ UNCHANGED <<cfgProviders, adReq, adBackend>>
    /\ UNCHANGED notAdapter

\* client.generateContent(history) is called and settles.
ClientGenerateContent(history) ==
    /\ adResults["client.generateContent"] = NoCall
    /\ adResults' = [adResults EXCEPT !["client.generateContent"] =
           DeepSeekClient_generateContent(cfgProviders, envDeepSeekKey,
                                          history, adBackend)]
    /\ UNCHANGED <<cfgProviders, adReq, adBackend>>
    /\ UNCHANGED notAdapter

\* The Turn[] histories DeepSeekClient.generateContent is called with.
ClientHistories == {<<>>, <<MockTurn>>}

AdapterNext ==
    \/ AdapterGenerateContent
    \/ AdapterGenerateContentStream
    \/ \E history \in ClientHistories : ClientGenerateContent(history)

(***************************************************************************)
(*      CONTENT GENERATOR FACADE: createContentGenerator, countTokens,     *)
(*      embedContent                                                       *)
(***************************************************************************)

\* Bound: objects constructed by the createContentGenerator calls of a run.
MaxConstructed == 4

\* The provider ids a configuration may hold (undefined included).
ProviderIds == {"google", "deepseek", "openai", "Google", "", Absent}

\* The generator a call returned, with the objects it constructed.
Created(generator, constructed) ==
    [outcome |-> "return", generator |-> generator, constructed |-> constructed]

\* The switch with an adapter for unrecognised ids.
ContentGeneratorForAnyProvider(provider) ==
    IF provider = "google"
    THEN Created("GeminiClient.getContentGenerator()", <<"GeminiClient">>)
    ELSE Created("LLMProviderAdapter", <<"DeepSeekClient", "LLMProviderAdapter">>)

\* createContentGenerator, contentGenerator.ts lines 124-151: the switch on
\* config.getProvider().
ContentGeneratorFor(provider) ==
    CASE provider = "google" ->
             Created("GeminiClient.getContentGenerator()", <<"GeminiClient">>)
      [] provider = "deepseek" ->
             Created("LLMProviderAdapter", <<"DeepSeekClient", "LLMProviderAdapter">>)
      [] OTHER ->
             [outcome |-> "throw",
              error |-> ThrownError(<<"Unsupported provider: ", provider>>),
              constructed |-> <<>>]

\* The token count of line 111.
FixedTokenCount == 100

\* LLMProviderAdapter.countTokens, lines 108-112: req is not read.
LLMProviderAdapter_countTokens(req) ==
    [outcome |-> "return", value |-> [totalTokens |-> FixedTokenCount]]

\* embedContent that resolves with an empty response.
LLMProviderAdapter_embedContent_Empty(req) ==
    [outcome |-> "return", value |-> [embeddings |-> <<>>]]

\* LLMProviderAdapter.embedContent, lines 114-118: req is not read.
LLMProviderAdapter_embedContent(req) ==
    [outcome |-> "throw",
     error |-> ThrownError(<<"Embedding not supported by LLM provider adapter">>)]

FacadeInit ==
    /\ cgProvider \in ProviderIds
    /\ cgResult = NoCall
    /\ cgConstructed = <<>>
    /\ cgLast = NoCall
    /\ lastFacadeEvent = "new"

\* The state the facade is left in while another component is checked.
FacadeAtRest == cgProvider = "deepseek"

\* The configuration's provider id changes between calls.
ConfigSetProvider(provider) ==
    /\ provider # cgProvider
    /\ cgProvider' = provider
    /\ lastFacadeEvent' = "setProvider"
    /\ UNCHANGED <<cgResult, cgConstructed, cgLast>>
    /\ UNCHANGED notFacade

\* createContentGenerator(config) is called and settles.
CreateContentGenerator ==
    /\ Len(cgConstructed) + 2 <= MaxConstructed
    /\ cgResult' = ContentGeneratorFor(cgProvider)
    /\ cgConstructed' = cgConstructed \o ContentGeneratorFor(cgProvider).constructed
    /\ lastFacadeEvent' = "create"
    /\ UNCHANGED <<cgProvider, cgLast>>
    /\ UNCHANGED notFacade

\* The generator last created is an LLMProviderAdapter.
HasAdapter == cgResult.outcome = "return" /\ cgResult.generator = "LLMProviderAdapter"

\* adapter.countTokens(req) is called and settles.
AdapterCountTokens(req) ==
    /\ HasAdapter
    /\ cgLast' = [call |-> "countTokens", req |-> req,
                  result |-> LLMProviderAdapter_countTokens(req)]
    /\ lastFacadeEvent' = "countTokens"
    /\ UNCHANGED <<cgProvider, cgResult, cgConstructed>>
    /\ UNCHANGED notFacade

\* adapter.embedContent(req) is called and settles.
AdapterEmbedContent(req) ==
    /\ HasAdapter
    /\ cgLast' = [call |-> "embedContent", req |-> req,
                  result |-> LLMProviderAdapter_embedContent(req)]
    /\ lastFacadeEvent' = "embedContent"
    /\ UNCHANGED <<cgProvider, cgResult, cgConstructed>>
    /\ UNCHANGED notFacade

\* The contents of CountTokensParameters and EmbedContentParameters.
FacadeRequests ==
    {[contents |-> c] : c \in {Empty, <<"q">>, <<"h", "e", "l", "l", "o">>}}

FacadeNext ==
    \/ \E p \in ProviderIds : ConfigSetProvider(p)
    \/ CreateContentGenerator
    \/ \E req \in FacadeRequests : AdapterCountTokens(req)
    \/ \E req \in FacadeRequests : AdapterEmbedContent(req)

\* Each component is checked with the others at rest in one initial state.
AuthSpecInit ==
    AuthInit /\ EnvInit /\ SessInit /\ ChatInit /\ AdapterInit /\ ClientInit
      /\ FacadeInit /\ FacadeAtRest
      /\ envDeepSeekKey = Absent /\ dsSystemPrompt = Empty /\ AdapterAtRest
      /\ clientChat

AuthSpec == AuthSpecInit /\ [][AuthNext]_vars

SessSpecInit ==
    AuthInit /\ EnvInit /\ SessInit /\ ChatInit /\ AdapterInit /\ ClientInit
      /\ FacadeInit /\ FacadeAtRest
      /\ selectedAuthType = NoMethod /\ AdapterAtRest /\ clientChat

SessSpec == SessSpecInit /\ [][SessNext]_vars

ChatSpecInit ==
    AuthInit /\ EnvInit /\ SessInit /\ ChatInit /\ AdapterInit /\ ClientInit
      /\ FacadeInit /\ FacadeAtRest
      /\ selectedAuthType = NoMethod /\ envDeepSeekKey = Absent
      /\ dsSystemPrompt = Empty /\ AdapterAtRest /\ clientChat

ChatSpec == ChatSpecInit /\ [][ChatNext]_vars

AdapterSpecInit ==
    AuthInit /\ EnvInit /\ SessInit /\ ChatInit /\ AdapterInit /\ ClientInit
      /\ FacadeInit /\ FacadeAtRest
      /\ selectedAuthType = NoMethod /\ dsSystemPrompt = Empty /\ clientChat

AdapterSpec == AdapterSpecInit /\ [][AdapterNext]_vars

\* The client starts without a chat: initialize() has not been called.
ClientSpecInit ==
    AuthInit /\ EnvInit /\ SessInit /\ ChatInit /\ AdapterInit /\ ClientInit
      /\ FacadeInit /\ FacadeAtRest
      /\ selectedAuthType = NoMethod /\ envDeepSeekKey = Absent
      /\ dsSystemPrompt = Empty /\ AdapterAtRest /\ ~clientChat

ClientSpec == ClientSpecInit /\ [][ClientNext]_vars

FacadeSpecInit ==
    AuthInit /\ EnvInit /\ SessInit /\ ChatInit /\ AdapterInit /\ ClientInit
      /\ FacadeInit
      /\ selectedAuthType = NoMethod /\ envDeepSeekKey = Absent
      /\ dsSystemPrompt = Empty /\ AdapterAtRest /\ clientChat

FacadeSpec == FacadeSpecInit /\ [][FacadeNext]_vars

SnapSpec == ChatSpecInit /\ [][SnapNext]_vars

(***************************************************************************)
(*                     PROPERTIES OF THE AUTH CONTROLLER                   *)
(***************************************************************************)

\* C1: at most one authentication attempt (a pending config.refreshAuth call)
\* is in flight at any time: an attempt starts only in a state where
\* isAuthenticating is false and no other attempt is pending, whether the
\* effect or handleAuthSelect starts it.
C1_SingleAttemptInFlight ==
    [][PendingRefreshAuth' > PendingRefreshAuth
         => ~isAuthenticating /\ PendingRefreshAuth = 0]_vars

\* C2: an automatic attempt that fails sets hasAutoAuthFailedRef, reports the
\* error and opens the dialog; while hasAutoAuthFailedRef is set no automatic
\* attempt starts, whatever effect re-runs, dialog opens and closes and
\* cancelAuthentication calls happen; and only handleAuthSelect with a method
\* clears hasAutoAuthFailedRef.
C2_NoAutoRetryAfterAutoFailure ==
    [][/\ lastAuthEvent' = "autoFail"
            => hasAutoAuthFailedRef' /\ authError' = LoginFailed /\ isAuthDialogOpen'
       /\ hasAutoAuthFailedRef
            => PendingAutoRefreshAuth' <= PendingAutoRefreshAuth
       /\ hasAutoAuthFailedRef /\ ~hasAutoAuthFailedRef'
            => lastAuthEvent' = "selectStart"]_vars

\* C2 witness: after an automatic failure the dialog was closed without a
\* selection and the effect ran again; the retry guard alone kept it from
\* starting an attempt.
C2_Witness ==
    /\ hasAutoAuthFailedRef
    /\ lastAuthEvent = "effectSkip"
    /\ AutoAuthBlocked
    /\ ~AutoAuthBlockedNoRetryGuard

(***************************************************************************)
(*                      PROPERTIES OF THE SESSIONS                         *)
(***************************************************************************)

\* C3: a failed turn never appends to history: when a sendMessageStream call
\* has failed (backend status, 403, network failure, cancellation), the
\* history equals the history before that call.
C3_FailedTurnLeavesHistory ==
    lastSessEvent = "dsError" => dsHistory = dsLast.request.before

\* The event types that end an event sequence.
TerminalEventTypes == {"done", "error"}

\* C4: every event sequence of a request ends with a terminal event: the last
\* event of a finished stream is Done or Error, also when the signal was
\* aborted before the call.
C4_StreamEndsWithTerminalEvent ==
    lastChatEvent = "chatSend"
      => /\ chatLast.events # <<>>
         /\ chatLast.events[Len(chatLast.events)].type \in TerminalEventTypes

\* C6: a successful sendMessageStream on a history of n turns leaves n + 2
\* turns: the n turns, a user turn with the sent content, and a model turn,
\* which is the value returned.
C6_SuccessfulSendAppendsUserAndModel ==
    lastChatEvent = "chatSend"
      => LET n == Len(chatLast.before)
         IN  /\ Len(chatHistory) = n + 2
             /\ SubSeq(chatHistory, 1, n) = chatLast.before
             /\ chatHistory[n + 1] =
                    Turn("user", <<TextPart(MessageText(chatLast.request))>>)
             /\ Get(chatHistory[n + 2], "role", Absent) = "model"
             /\ chatLast.returned = chatHistory[n + 2]

\* C7: getHistory returns a snapshot: a caller that pushes to, pops from or
\* assigns an element of the returned array leaves the session's history
\* unchanged.
C7_GetHistoryIsASnapshot ==
    [][lastChatEvent' = "chatCallerMutates" => chatHistory' = chatHistory]_vars

(***************************************************************************)
(*                     PROVIDER ADAPTER: properties                        *)
(***************************************************************************)

\* The request carries a user message with non-blank text.
RequestHasUserText(req) ==
    \E i \in DOMAIN RequestMessages(req) :
        /\ RequestMessages(req)[i].role = "user"
        /\ ~IsBlank(RequestMessages(req)[i].content)

\* The text and the usage a GenerateContentResponse carries.
ResponseText(response) == JoinText(response.candidates[1].content.parts)
ResponseUsage(response) == response.usageMetadata

Contains(seq, x) == \E i \in DOMAIN seq : seq[i] = x

\* C5: for a request with non-empty user text, once generateContent and
\* generateContentStream have both settled on the same request and backend
\* behaviour: when the buffered call returns a response the stream yields
\* exactly one event, carrying the same text and usage; and when the buffered
\* call fails, the stream call fails with the same error.
C5_SingleShotStreamingEquivalence ==
    LET buffered == adResults["adapter.generateContent"]
        streamed == adResults["adapter.generateContentStream"]
    IN  (RequestHasUserText(adReq) /\ buffered # NoCall /\ streamed # NoCall) =>
            /\ buffered.outcome = "return" =>
                   /\ streamed.outcome = "stream"
                   /\ Len(streamed.events) = 1
                   /\ ResponseText(streamed.events[1]) = ResponseText(buffered.value)
                   /\ ResponseUsage(streamed.events[1]) = ResponseUsage(buffered.value)
            /\ buffered.outcome = "throw" => streamed = buffered

C5_Witness ==
    /\ RequestHasUserText(adReq)
    /\ adResults["adapter.generateContent"].outcome = "return"
    /\ adResults["adapter.generateContentStream"].outcome = "stream"
    /\ ResponseText(adResults["adapter.generateContent"].value) = <<"h", "i">>
    /\ ResponseUsage(adResults["adapter.generateContentStream"].events[1]).totalTokenCount = 4

\* C8: every request path that reached the network classifies what the
\* transport settled with in the same way: a 401 or 403 response fails with
\* the auth diagnostic (credential source and whether it is set), another
\* non-2xx response fails with an error carrying the status and the message,
\* no response fails with the transport error itself, and a 2xx response is
\* the only outcome reported as success.
C8_UniformErrorClassification ==
    \A p \in AdapterPaths :
        LET r == adResults[p]
        IN  (r # NoCall /\ r.wire.sent) =>
                LET settled == AxiosPost(r.wire, adBackend)
                    status  == ResponseStatus(settled)
                IN  /\ ~IsError(settled) => r.outcome \in {"return", "stream"}
                    /\ status \in {401, 403} =>
                           /\ r.outcome = "throw"
                           /\ r.error.message = AuthFailedMessage(envDeepSeekKey)
                    /\ (IsError(settled) /\ status \notin {0, 401, 403}) =>
                           /\ r.outcome = "throw"
                           /\ Contains(r.error.message, ToString(status))
                           /\ Contains(r.error.message, ErrorText(settled))
                    /\ (IsError(settled) /\ status = 0) =>
                           /\ r.outcome = "throw"
                           /\ r.error = settled

\* The same configuration with every stored key replaced by another secret.
OtherSecrets(providers) ==
    [deepseek |-> IF providers.deepseek = Absent THEN Absent ELSE "sk-deepseek-2",
     google   |-> IF providers.google = Absent THEN Absent ELSE "sk-google-2"]

\* What a request path settles with under a given configuration.
PathResult(p, providers) ==
    CASE p = "adapter.generateContent" ->
             LLMProviderAdapter_generateContent(providers, envDeepSeekKey, adReq, adBackend)
      [] p = "adapter.generateContentStream" ->
             LLMProviderAdapter_generateContentStream(providers, envDeepSeekKey, adReq, adBackend)
      [] OTHER ->
             DeepSeekClient_generateContent(providers, envDeepSeekKey, <<>>, adBackend)

\* C9: the message of every error a request path fails with is the message
\* the same call fails with when the stored API keys hold other values (the
\* same keys being present and absent).
C9_DiagnosticsIndependentOfSecrets ==
    \A p \in AdapterPaths :
        adResults[p].outcome = "throw" =>
            /\ PathResult(p, OtherSecrets(cfgProviders)).outcome = "throw"
            /\ adResults[p].error.message =
                   PathResult(p, OtherSecrets(cfgProviders)).error.message

\* C10: a request without a user message of non-blank text fails with
\* EmptyRequest and nothing is sent to the network.
C10_EmptyRequestRejected ==
    \A p \in {"adapter.generateContent", "adapter.generateContentStream"} :
        (adResults[p] # NoCall /\ ~RequestHasUserText(adReq)) =>
            /\ adResults[p].outcome = "throw"
            /\ adResults[p].error.name = "EmptyRequest"
            /\ ~adResults[p].wire.sent

(***************************************************************************)
(*                   PROPERTIES OF THE CLIENT'S SESSION                    *)
(***************************************************************************)

\* The calls a step has added to the pending ones.
NewCalls == BagToSet(dsPending' (-) dsPending)

\* C11: the system prompt is placed on every request from its current value:
\* when the prompt most recently given to the chat is not blank, the message
\* list of a request that is sent starts with a system message with that
\* prompt; and updateSystemPrompt leaves the history as it was.
C11_SystemPromptOnEveryRequest ==
    [][/\ (lastSessEvent' = "dsSend" /\ ~IsBlank(promptSet)) =>
              \A r \in NewCalls :
                  r.messages[1] = [role |-> "system", content |-> promptSet]
       /\ lastSessEvent' = "updateSystemPrompt" => dsHistory' = dsHistory]_vars

\* A request sent after a turn and an update carries the updated prompt.
C11_Witness ==
    /\ lastSessEvent = "dsSend"
    /\ promptSet = <<"t">>
    /\ Len(dsHistory) = 3
    /\ \E r \in DSPendingCalls :
          r.messages[1] = [role |-> "system", content |-> <<"t">>]

(***************************************************************************)
(*             PROPERTIES OF Chat: cancellation and turn budget            *)
(***************************************************************************)

\* The types of the events of the stream the last call produced.
EventTypes(call) == {call.events[i].type : i \in DOMAIN call.events}

\* C12: once the caller's signal has been cancelled, no Content event is
\* emitted for the request: a sendMessageStream call made with an aborted
\* signal yields no event of type Content.
C12_CancelledRequestEmitsNoContent ==
    (lastChatEvent = "chatSend" /\ chatLast.signal = "aborted")
        => "content" \notin EventTypes(chatLast)

\* C13: the session enforces its turn budget: a sendMessageStream call whose
\* budget is exhausted (turns = 0) produces no content and reports
\* TurnBudgetExceeded.
C13_TurnBudgetEnforced ==
    (lastChatEvent = "chatSend" /\ chatLast.turns = 0)
        => /\ "content" \notin EventTypes(chatLast)
           /\ "turnBudgetExceeded" \in EventTypes(chatLast)

(***************************************************************************)
(*                      PROPERTIES OF THE FACADE                           *)
(***************************************************************************)

RecognisedProviders == {"google", "deepseek"}

\* C14: createContentGenerator selects the adapter by provider id: a call
\* returns a generator when the id is 'google' or 'deepseek'; for every other
\* id the one call fails with the unsupported-provider error and constructs
\* nothing.
C14_GeneratorSelectedByProvider ==
    [][lastFacadeEvent' = "create" =>
          /\ cgProvider \in RecognisedProviders =>
                 /\ cgResult'.outcome = "return"
                 /\ cgConstructed' # cgConstructed
          /\ cgProvider \notin RecognisedProviders =>
                 /\ cgResult'.outcome = "throw"
                 /\ cgResult'.error.message = <<"Unsupported provider: ", cgProvider>>
                 /\ cgConstructed' = cgConstructed]_vars

\* A call with an unrecognised id has failed after a call that succeeded.
C14_Witness ==
    /\ lastFacadeEvent = "create"
    /\ cgProvider = "openai"
    /\ cgResult.outcome = "throw"
    /\ cgConstructed = <<"DeepSeekClient", "LLMProviderAdapter">>

\* C15: on the adapter, embedContent fails with the not-supported error for
\* every request and never returns; countTokens returns a count for every
\* request and never fails.
C15_EmbedFailsCountTokensReturns ==
    /\ lastFacadeEvent = "embedContent" =>
           /\ cgLast.result.outcome = "throw"
           /\ cgLast.result.error.message =
                  <<"Embedding not supported by LLM provider adapter">>
    /\ lastFacadeEvent = "countTokens" =>
           /\ cgLast.result.outcome = "return"
           /\ cgLast.result.value.totalTokens \in Nat

C15_Witness ==
    /\ lastFacadeEvent = "embedContent"
    /\ cgLast.req.contents = <<"q">>
    /\ cgLast.result.outcome = "throw"

(***************************************************************************)
(*                     PROPERTIES OF USAGE METADATA                        *)
(***************************************************************************)

\* The count the backend reported for a field, 0 when it reported none.
ReportedCount(data, field) ==
    IF "usage" \in DOMAIN data /\ field \in DOMAIN data.usage
    THEN data.usage[field] ELSE 0

\* The usage metadata a completed response must carry for response.data.
ExpectedUsage(data) ==
    [promptTokenCount |-> ReportedCount(data, "prompt_tokens"),
     candidatesTokenCount |-> ReportedCount(data, "completion_tokens"),
     totalTokenCount |-> ReportedCount(data, "total_tokens")]

\* The responses a settled call carries.
CompletedResponses(r) ==
    CASE r.outcome = "return" -> {r.value}
      [] r.outcome = "stream" -> {r.events[i] : i \in DOMAIN r.events}
      [] OTHER -> {}

\* C16: usage metadata is always present on a completed response: the three
\* counts are the ones the backend reported, and a count the backend omitted
\* (or all of them, when usage is missing) is 0; this holds for the responses
\* of the client's conversion and for the one the session builds.
C16_UsageAlwaysPresent ==
    /\ \A p \in AdapterPaths : \A response \in CompletedResponses(adResults[p]) :
           /\ "usageMetadata" \in DOMAIN response
           /\ response.usageMetadata = ExpectedUsage(adBackend)
    /\ ~IsError(adBackend) =>
           /\ "usageMetadata" \in DOMAIN ChatResponse(adBackend)
           /\ ChatResponse(adBackend).usageMetadata = ExpectedUsage(adBackend)

\* A response was completed from a backend answer that reports one count only.
C16_Witness ==
    /\ adBackend = [choices |-> <<ChoiceNoContent>>, usage |-> [prompt_tokens |-> 3]]
    /\ adResults["adapter.generateContent"].outcome = "return"
    /\ adResults["adapter.generateContent"].value.usageMetadata =
           [promptTokenCount |-> 3, candidatesTokenCount |-> 0, totalTokenCount |-> 0]
    /\ adResults["client.generateContent"].outcome = "return"

(***************************************************************************)
(*            PROPERTIES OF THE AUTH FLOW CONTROLLER (continued)           *)
(***************************************************************************)

\* C17: cancelAuthentication only stops the in-progress indication: from
\* every state it sets isAuthenticating to false and leaves the dialog, the
\* error, the selected method and the two refs as they were.
C17_CancelOnlyStopsIndication ==
    [][lastAuthEvent' = "cancel" =>
          /\ ~isAuthenticating'
          /\ UNCHANGED <<isAuthDialogOpen, authError, selectedAuthType,
                         isUserInitiatedAuthRef, hasAutoAuthFailedRef>>]_vars

\* An attempt the user started from the dialog after a failure was cancelled.
C17_Witness ==
    /\ lastAuthEvent = "cancel"
    /\ ~isAuthenticating
    /\ isAuthDialogOpen
    /\ authError = LoginFailed
    /\ isUserInitiatedAuthRef
    /\ PendingRefreshAuth = 1

\* C18: outcome of handleAuthSelect(method): when its attempt succeeds the
\* dialog is closed and the error cleared; when it fails the dialog is left
\* as it was (open), the error is reported and isUserInitiatedAuthRef is
\* reset; in both cases isAuthenticating is false when the call returns.
C18_SelectionOutcome ==
    [][/\ lastAuthEvent' = "selectOk" =>
              /\ ~isAuthDialogOpen'
              /\ authError' = NoError
              /\ ~isAuthenticating'
       /\ lastAuthEvent' = "selectFail" =>
              /\ isAuthDialogOpen' = isAuthDialogOpen
              /\ authError' = LoginFailed
              /\ ~isUserInitiatedAuthRef'
              /\ ~isAuthenticating']_vars

\* A selection made in the open dialog has failed.
C18_Witness ==
    /\ lastAuthEvent = "selectFail"
    /\ isAuthDialogOpen
    /\ authError = LoginFailed
    /\ ~isUserInitiatedAuthRef
    /\ ~isAuthenticating
    /\ authFlows = EmptyBag

\* C19: initial auth state: the dialog is open at start exactly when no method
\* is pre-selected; isAuthenticating starts false; with a method pre-selected
\* an automatic attempt is pending: the effect is due and its first run
\* starts the attempt.
C19_InitialAuthState ==
    [][lastAuthEvent = "mount" =>
          /\ isAuthDialogOpen <=> selectedAuthType = NoMethod
          /\ ~isAuthenticating
          /\ selectedAuthType # NoMethod => effectDue
          /\ lastAuthEvent' \in {"autoStart", "effectSkip"} =>
                 (lastAuthEvent' = "autoStart" <=> selectedAuthType # NoMethod)]_vars

\* The automatic attempt of the start is under way.
C19_Witness ==
    /\ lastAuthEvent = "autoStart"
    /\ selectedAuthType = "api-key"
    /\ ~isAuthDialogOpen
    /\ isAuthenticating
    /\ PendingAutoRefreshAuth = 1
    /\ authError = NoError

\* C20: the automatic transition fires once: an automatic attempt starts only
\* with a method pre-selected, the dialog closed, isAuthenticating false and
\* hasAutoAuthFailedRef false, and never after an automatic attempt has
\* succeeded with no selection made since.
C20_AutoTransitionFiresOnce ==
    [][lastAuthEvent' = "autoStart" =>
          /\ selectedAuthType # NoMethod
          /\ ~isAuthDialogOpen
          /\ ~isAuthenticating
          /\ ~hasAutoAuthFailedRef
          /\ ~autoAuthSucceeded]_vars

(***************************************************************************)
(*                 PROPERTIES OF THE MESSAGES SENT                         *)
(***************************************************************************)

\* The string has a character that is not whitespace.
HasVisibleText(t) == \E i \in DOMAIN t : t[i] # " "

NoBlankMessage(messages) ==
    \A i \in DOMAIN messages : HasVisibleText(messages[i].content)

\* The request's system instruction as the prompt of a session, and its
\* Content objects as the history of a session.
IsContentObject(item) == item.kind = "object" /\ "parts" \in DOMAIN item.value

RequestPrompt(req) ==
    IF "config" \in DOMAIN req /\ "systemInstruction" \in DOMAIN req.config
    THEN SystemContent(req.config.systemInstruction) ELSE Empty

RECURSIVE Values(_)
Values(items) ==
    IF items = <<>> THEN <<>> ELSE <<Head(items).value>> \o Values(Tail(items))

RequestHistory(req) ==
    IF "contents" \in DOMAIN req /\ req.contents.kind = "array"
    THEN Values(SelectSeq(req.contents.value, IsContentObject))
    ELSE <<>>

\* C21: no blank content is transmitted: every message of every request that
\* reached the network has content with a non-whitespace character (blank
\* turns and a blank system prompt produce no message), on the adapter's
\* paths and in the messages the session builds from the same prompt and
\* history.
C21_NoBlankContentTransmitted ==
    /\ \A p \in AdapterPaths :
           (adResults[p] # NoCall /\ adResults[p].wire.sent) =>
               NoBlankMessage(adResults[p].wire.body.messages)
    /\ NoBlankMessage(BuildMessages(RequestPrompt(adReq), RequestHistory(adReq)))

\* A request with a blank turn before a user turn was sent without the blank
\* turn.
C21_Witness ==
    /\ adReq = [contents |-> Arr(<<Obj(Turn("user", <<TextPart(Blank)>>)),
                                   Obj(UserTurnQ)>>)]
    /\ adResults["adapter.generateContent"] # NoCall
    /\ adResults["adapter.generateContent"].wire.body.messages =
           <<[role |-> "user", content |-> <<"q">>]>>
    /\ BuildMessages(RequestPrompt(adReq), RequestHistory(adReq)) =
           <<[role |-> "user", content |-> <<"q">>]>>

\* The conversion the histories are to undergo: the non-blank turns in order,
\* their parts' text concatenated, 'model' sent as 'assistant' and every role
\* other than 'user' and 'model' sent as 'user'.
RECURSIVE ExpectedMessages(_)
ExpectedMessages(history) ==
    IF history = <<>> THEN <<>>
    ELSE LET r    == Get(Head(history), "role", Absent)
             text == JoinText(Get(Head(history), "parts", <<>>))
         IN  (IF HasVisibleText(text)
              THEN <<[role |-> IF r = "model" THEN "assistant" ELSE "user",
                      content |-> text]>>
              ELSE <<>>)
               \o ExpectedMessages(Tail(history))

NotSystemMessage(message) == message.role # "system"

\* The messages of a request other than the system message.
ConversationMessages(messages) == SelectSeq(messages, NotSystemMessage)

\* The contents of a request as the history supplied to the adapter.
RECURSIVE ItemContents(_)
ItemContents(items) ==
    IF items = <<>> THEN <<>>
    ELSE <<ItemContent(Head(items))>> \o ItemContents(Tail(items))

SuppliedHistory(req) ==
    LET contents == Get(req, "contents", Undefined)
    IN  IF ~Truthy(contents) THEN <<>>
        ELSE ItemContents(IF contents.kind = "array" THEN contents.value
                          ELSE <<contents>>)

\* C22: on every request path the conversation messages sent are the
\* conversion of the supplied history: its non-blank turns in order, text
\* concatenated, 'model' as 'assistant', a missing or unrecognised role as
\* 'user'.
C22_HistoryToWireConversion ==
    /\ \A p \in {"adapter.generateContent", "adapter.generateContentStream"} :
           (adResults[p] # NoCall /\ adResults[p].wire.sent) =>
               ConversationMessages(adResults[p].wire.body.messages)
                   = ExpectedMessages(SuppliedHistory(adReq))
    /\ (adResults["client.generateContent"] # NoCall
          /\ adResults["client.generateContent"].wire.sent) =>
           \E history \in ClientHistories :
               ConversationMessages(adResults["client.generateContent"].wire.body.messages)
                   = ExpectedMessages(history)
    /\ ConversationMessages(BuildMessages(RequestPrompt(adReq), RequestHistory(adReq)))
           = ExpectedMessages(RequestHistory(adReq))

(***************************************************************************)
(*        PROPERTIES OF THE AUTH FLOW CONTROLLER: user selections          *)
(***************************************************************************)

\* The handleAuthSelect(m) calls suspended at a given await.
UserFlowsAt(flows, pc, m) == CopiesIn(AuthFlow("user", pc, m), flows)

\* C23: step order of handleAuthSelect(method): the call first sets
\* isUserInitiatedAuthRef and clears hasAutoAuthFailedRef, with nothing
\* persisted and no attempt started; an attempt of the call starts only as
\* the step of a call whose credential clear has completed, which persists
\* the method and sets isAuthenticating; and when the credential clear fails
\* nothing is persisted and no attempt starts.
C23_SelectionStepOrder ==
    [][/\ lastAuthEvent' = "selectStart" =>
              /\ isUserInitiatedAuthRef' /\ ~hasAutoAuthFailedRef'
              /\ UNCHANGED <<selectedAuthType, isAuthenticating>>
              /\ PendingRefreshAuth' = PendingRefreshAuth
       /\ \A m \in AuthMethods :
              UserFlowsAt(authFlows', "refreshAuth", m)
                  > UserFlowsAt(authFlows, "refreshAuth", m) =>
                  /\ UserFlowsAt(authFlows', "clearCred", m)
                         < UserFlowsAt(authFlows, "clearCred", m)
                  /\ selectedAuthType' = m
                  /\ isAuthenticating'
       /\ lastAuthEvent' = "selectClearFail" =>
              /\ UNCHANGED <<selectedAuthType, isAuthenticating>>
              /\ PendingRefreshAuth' = PendingRefreshAuth]_vars

\* The attempt of a selection made in the start dialog is under way.
C23_Witness ==
    /\ lastAuthEvent = "selectAttempt"
    /\ selectedAuthType = "api-key"
    /\ isAuthDialogOpen
    /\ isUserInitiatedAuthRef /\ ~hasAutoAuthFailedRef
    /\ isAuthenticating
    /\ UserFlowsAt(authFlows, "refreshAuth", "api-key") = 1
    /\ PendingAutoRefreshAuth = 0

\* The handleAuthSelect(method) calls that have begun and not returned.
UserFlowsPending == {f \in BagToSet(authFlows) : f.kind = "user"}

\* C24: a user-initiated attempt is never interfered with by the automatic
\* flow: no automatic attempt starts while a handleAuthSelect(method) call has
\* begun and not yet returned.
C24_NoAutoStartDuringUserFlow ==
    [][lastAuthEvent' = "autoStart" => UserFlowsPending = {}]_vars

\* C25: the auth controller returns to rest: whenever no call of authFlow or
\* handleAuthSelect is pending (every one that began has ended),
\* isAuthenticating is false and isUserInitiatedAuthRef is false.
C25_ControllerReturnsToRest ==
    authFlows = EmptyBag => ~isAuthenticating /\ ~isUserInitiatedAuthRef

(***************************************************************************)
(*          PROPERTIES OF DeepSeekChat: alternation, resetChat             *)
(***************************************************************************)

\* The history is User, Model, User, Model, ...
Alternates(history) ==
    \A i \in DOMAIN history :
        Get(history[i], "role", Absent) = (IF i % 2 = 1 THEN "user" ELSE "model")

\* C26: the DeepSeekChat history strictly alternates User, Model, ... also
\* with calls that overlap: every request is built on a history of completed
\* user/model pairs (to which its own user message is added), and once no
\* call is pending the history alternates.
C26_HistoryAlternates ==
    /\ \A r \in DSPendingCalls :
           Alternates(r.before) /\ Len(r.before) % 2 = 0
    /\ dsPending = EmptyBag => Alternates(dsHistory)

\* C27: resetChat preserves the system prompt and discards the conversation:
\* it leaves a chat with an empty history and the prompt in force before the
\* reset (the empty prompt when there was no chat), and the API key is as it
\* was.
C27_ResetChatKeepsPrompt ==
    [][lastSessEvent' = "resetChat" =>
          /\ clientChat'
          /\ dsHistory' = <<>>
          /\ dsSystemPrompt' = (IF clientChat THEN dsSystemPrompt ELSE Empty)
          /\ ApiKey(cfgProviders') = ApiKey(cfgProviders)]_vars

\* A chat whose prompt had been updated and that had completed a turn was
\* reset.
C27_Witness ==
    /\ lastSessEvent = "resetChat"
    /\ clientChat
    /\ dsSystemPrompt = <<"t">>
    /\ dsHistory = <<>>
    /\ dsLast # NoCall
    /\ dsLast.outcome = "stream"

====
